---- MODULE Spec2Model ----
(***************************************************************************)
(* A model of the dylo runtime loader (dylo-runtime/src/details.rs).       *)
(*                                                                         *)
(* State: the process-wide LOCKS registry and its mutex, one LockSlot      *)
(* (a poisonable mutex around an Option<AnyModRef>) per module name, the   *)
(* environment and the files load_mod and build_mod read and write, the    *)
(* cargo child process of a build, and the position of every thread that   *)
(* is inside load_mod.                                                     *)
(*                                                                         *)
(* A panic is modelled as it runs with unwinding: the thread leaves        *)
(* load_mod, the MutexGuard it holds is dropped, which releases the slot   *)
(* mutex and marks it poisoned; a later lock().unwrap() on a poisoned      *)
(* mutex panics in turn.                                                   *)
(***************************************************************************)
EXTENDS Integers, Sequences, FiniteSets, TLC

\* Number of threads that call load_mod.
NumThreads == 2

\* Total number of load_mod calls made in one run of the process.
MaxCalls == 2

Threads == 1..NumThreads

\* Module names handed to load_mod (the names of spec scenarios A and B).
Modules == {"alpha", "beta"}

NoThread == 0

\* Option<AnyModRef>::None; a handle is the positive number of the entry-point
\* invocation that produced it, so two invocations never yield equal handles.
NoHandle == 0

\* What std::env::var("DYLO_BUILD") can yield: unset, or a string value.
BuildEnvValues == {"unset", "0", "1", "verbose"}

\* What std::env::var("DYLO_TARGET_DIR") can yield: unset, or the name of a
\* directory that exists, of one that does not, or a relative path.
TargetDirValues == {"unset", "/abs/there", "/abs/nowhere", "rel/target"}

\* What a libmod_<name>.<ext> file is to the dynamic loader: absent (or not
\* loadable), a library that exports the symbol load_mod looks up, or a
\* library that exports its entry point as dylo-cli's init_template.rs does.
LibKinds == {"absent", "good", "nosym"}

\* What a successful cargo build may leave in the target directory: the
\* library and, beside a library, its debug info.
Artifacts == {[lib |-> "absent", dbg |-> FALSE], [lib |-> "nosym", dbg |-> FALSE],
              [lib |-> "good", dbg |-> FALSE], [lib |-> "good", dbg |-> TRUE]}

\* What a cargo child may write: the lines of its standard output and those
\* of its standard error.
ChildOutputs == {[out |-> << >>, err |-> << >>],
                 [out |-> <<"o1">>, err |-> <<"e1">>]}

VARIABLES
    pc,         \* pc[t]: where thread t is in load_mod
    cur,        \* cur[t]: the mod_name argument of t's current call
    ret,        \* ret[t]: the value t's last returned call returned
    work,       \* work[t]: the effects t's current call has had so far
    warm,       \* warm[t]: t's current call began after the slot was filled
    plugin,     \* plugin[t]: the local `plugin` of t (line 339)
    panic,      \* panic[t]: the message of the panic that ended t's call
    calls,      \* number of load_mod calls started so far
    regLock,    \* holder of the LOCKS mutex, or NoThread
    registry,   \* keys of the LOCKS hash map
    slotLock,   \* slotLock[m]: holder of m's slot mutex, or NoThread
    poisoned,   \* poisoned[m]: m's slot mutex is poisoned
    slot,       \* slot[m]: the Option<AnyModRef> inside m's slot mutex
    DYLO_BUILD, \* the environment variable DYLO_BUILD
    DYLO_TARGET_DIR, \* the environment variable DYLO_TARGET_DIR
    HOME,       \* one of HOME and USERPROFILE is set
    paths,      \* paths[m]: find_mod_dir finds a mod-<m> directory
    exeLib,     \* exeLib[m]: libmod_<m>.<lib> beside the executable
    exeDbg,     \* exeDbg[m]: libmod_<m>.<dbg> beside the executable
    targetLib,  \* targetLib[m]: libmod_<m>.<lib> in the cargo target dir
    targetDbg,  \* targetDbg[m]: libmod_<m>.<dbg> in the cargo target dir
    child,      \* child[m]: the cargo child process building m
    spawned,    \* spawned[m]: cargo build processes spawned for m
    copied,     \* copied[m]: library files copied for m
    dlopened,   \* dlopened[m]: successful dlopen calls for m
    handles,    \* handles[m]: handles of m's library that are open
    inits,      \* inits[m]: invocations of m's entry point
    reported,   \* reported[m]: what build_mod printed when m's build failed
    stranded,   \* stranded[m]: the callers still in slot.lock() that were
                \* blocked on m's slot mutex when its holder panicked
    aux         \* the programs modelled apart from the loader, each in a
                \* field of its own: bm, ast, ws and toml

vars == <<pc, cur, ret, work, warm, plugin, panic, calls, regLock, registry,
          slotLock, poisoned, slot, DYLO_BUILD, DYLO_TARGET_DIR, HOME, paths,
          exeLib, exeDbg,
          targetLib, targetDbg, child, spawned, copied, dlopened, handles,
          inits, reported, stranded, aux>>

thrVars == <<pc, cur, ret, work, warm, plugin, panic, calls>>
lockVars == <<regLock, registry, slotLock, poisoned, slot, stranded>>
envVars == <<DYLO_BUILD, DYLO_TARGET_DIR, HOME, paths>>
fsVars == <<exeLib, exeDbg, targetLib, targetDbg>>
countVars == <<spawned, copied, dlopened, handles, inits>>
loaderVars == <<thrVars, lockVars, envVars, fsVars, child, countVars, reported>>

\* One call of build_mod in detail: the cargo child, its two pipes, the reader
\* threads, the channel and the collector.
bm == aux.bm

\* One call of transform_ast: the items of the parsed file, and the items kept
\* and the items added once it has run.
ast == aux.ast

\* The mod directory and the consumer directory on disk, and what the last run
\* of the tool did to them.
ws == aux.ws

\* The Cargo.toml of a mod, and what the last add or remove command did to it.
toml == aux.toml

\* No directory: get_target_dir panicked.
NoDir == << >>

NoChild == [state |-> "none", piped |-> FALSE, status |-> 0,
            out |-> << >>, err |-> << >>, target |-> NoDir]

\* A panic message: the literal text of the panic! or expect, and the text of
\* dlerror() formatted into it, if any.
Msg(text, os) == [text |-> text, os |-> os]

\* The thread has not panicked.
NoMsg == Msg("", "")

----------------------------------------------------------------------------
\* A from_env that takes every value it has no arm for as "0".
from_env_strict(v) ==
    CASE v = "1" -> "Yes"
      [] v = "verbose" -> "Verbosely"
      [] OTHER -> "Dont"

\* BuildMod::from_env
from_env(v) ==
    CASE v = "0" -> "Dont"
      [] v = "1" -> "Yes"
      [] v = "verbose" -> "Verbosely"
      [] OTHER -> "Yes"

\* A should_build that builds in every mode.
should_build_always(mode) == TRUE

\* A should_build that builds in verbose mode only.
should_build_verbose_only(mode) == mode = "Verbosely"

\* BuildMod::should_build
should_build(mode) ==
    CASE mode = "Dont" -> FALSE
      [] mode = "Yes" -> TRUE
      [] mode = "Verbosely" -> TRUE

\* BuildMod::is_verbose
is_verbose(mode) ==
    CASE mode = "Dont" -> FALSE
      [] mode = "Yes" -> FALSE
      [] mode = "Verbosely" -> TRUE

\* A get_target_dir that accepts DYLO_TARGET_DIR only when it names an
\* existing directory by an absolute path.
get_target_dir_validated(m) ==
    IF DYLO_TARGET_DIR = "/abs/there" THEN <<DYLO_TARGET_DIR>>
    ELSE IF DYLO_TARGET_DIR = "unset" /\ HOME THEN <<"HOME", ".dylo-mods", m>>
    ELSE NoDir

\* get_target_dir: DYLO_TARGET_DIR as it is when set, else
\* $HOME/.dylo-mods/<mod_name>, else a panic.
get_target_dir(m) ==
    IF DYLO_TARGET_DIR # "unset" THEN <<DYLO_TARGET_DIR>>
    ELSE IF HOME THEN <<"HOME", ".dylo-mods", m>>
    ELSE NoDir

\* Whether a target directory is named by an absolute path.
is_absolute(dir) == dir # <<"rel/target">>

\* get_paths returns (TRUE) or panics (FALSE): it panics when find_mod_dir
\* finds no mod-<name> directory under the base directory, and when
\* get_target_dir finds none of DYLO_TARGET_DIR, HOME and USERPROFILE set.
get_paths(m) == paths[m] /\ get_target_dir(m) # NoDir

\* The message get_paths panics with: find_mod_dir is looked at first.
get_paths_panic(m) ==
    IF ~paths[m] THEN Msg("Could not find mod source directory", "")
    ELSE Msg("Neither HOME nor USERPROFILE environment variables are set", "")

\* A build_mod that copies the library under another file name.
dylib_path_misnamed(m) == <<"current_exe_folder", "mod_", m, "lib">>

\* build_mod's dylib_path, the destination of the copy:
\* format!("{}/libmod_{}.{}", current_exe_folder, mod_name, extensions.lib)
build_dylib_path(m) == <<"current_exe_folder", "libmod_", m, "lib">>

\* load_mod's dylib_path, the path handed to dlopen:
\* current_exe_folder.join(format!("libmod_{}.{}", mod_name, extensions.lib))
load_dylib_path(m) == <<"current_exe_folder", "libmod_", m, "lib">>

\* The name load_mod hands to dlsym.
symbol_name == "github.com_bearcove_dylo"

\* The name under which the module support code generated by dylo-cli exports
\* the entry point `awaken`.
export_name == "https://github.com/bearcove/dylo"

\* The symbols a library of each kind exports.
Exports(kind) ==
    CASE kind = "good" -> {"github.com_bearcove_dylo"}
      [] kind = "nosym" -> {"https://github.com/bearcove/dylo"}
      [] OTHER -> {}

\* A load_mod that does not test what dlsym returned.
dlsym_unchecked(kind, name) == FALSE

\* dlsym(handle, name) on a library of the given kind returns null.
dlsym_is_null(kind, name) == name \notin Exports(kind)

\* The text dlerror() returns after the dl call named failed.
dlerror(call) ==
    CASE call = "dlopen" -> "cannot open shared object file"
      [] call = "dlsym" -> "undefined symbol"

\* A build_mod that never looks at the exit status.
success_ignored(status) == TRUE

\* ExitStatus::success
success(status) == status = 0

\* format!("[{}] {}", stream_name, line) of spawn_reader_thread
Tag(stream_name, line) == <<stream_name, line>>

\* Every line of a stream, tagged, in the order read (one reader thread).
RECURSIVE TagAll(_, _)
TagAll(stream_name, lines) ==
    IF lines = << >> THEN << >>
    ELSE <<Tag(stream_name, Head(lines))>> \o TagAll(stream_name, Tail(lines))

\* The orders in which the lines two senders put on one mpsc channel can
\* arrive: each sender's lines stay in order.
RECURSIVE Interleavings(_, _)
Interleavings(a, b) ==
    IF a = << >> THEN {b}
    ELSE IF b = << >> THEN {a}
    ELSE {<<Head(a)>> \o s : s \in Interleavings(Tail(a), b)}
         \cup {<<Head(b)>> \o s : s \in Interleavings(a, Tail(b))}

\* eprintln!("\nFailed to build {mod_name}, build log follows:")
LogHeader == <<"dylo", "Failed to build">>

\* What collect_thread can return once both readers are joined: with piped
\* streams the tagged lines of both, with inherited streams (child.stdout and
\* child.stderr are None) nothing.
CollectedLogs(c) ==
    IF c.piped
    THEN Interleavings(TagAll("stdout", c.out), TagAll("stderr", c.err))
    ELSE {<< >>}

\* The two output streams of the child.
Streams == {"stdout", "stderr"}

\* DYLO_BUILD with a value from_env has no arm for.
AnyBuildEnvValues == BuildEnvValues \cup {"yes"}

\* The child has no write under way.
NoWrite == [stream |-> "none", n |-> 0, utf8 |-> TRUE]

\* The n-th line the child writes: valid UTF-8 or not.
Line(n, utf8) == [n |-> n, utf8 |-> utf8]

\* Before build_mod is called.
BuildIdle ==
    [pc |-> "idle",
     cargo |-> "none",
     status |-> 0,
     piped |-> FALSE,
     pending |-> NoWrite,
     nwrites |-> 0,
     pipe |-> [s \in Streams |-> << >>],
     open |-> [s \in Streams |-> FALSE],
     reader |-> [s \in Streams |-> "unborn"],
     senders |-> 0,
     channel |-> << >>,
     collect |-> "unborn",
     output |-> << >>,
     terminal |-> << >>,
     written |-> [s \in Streams |-> << >>]]

-----------------------------------------------------------------------------
\* dylo-cli: transform_ast (src/dylo-cli/src/main.rs lines 499-731).

\* The items a source file holds, at most.
MaxItems == 2

\* The attributes transform_ast tells apart, and one it does not look at.
CfgImpl == "cfg(feature = \"impl\")"
CfgNotImpl == "cfg(not(feature = \"impl\"))"
CfgTest == "cfg(test)"
CfgAttrImpl == "cfg_attr(feature = \"impl\", derive(Serialize))"
Export == "dylo::export"
ExportNonsync == "dylo::export(nonsync)"
ExportOther == "dylo::export(sync)"
Derive == "derive(Default)"

Attrs == {CfgImpl, CfgNotImpl, CfgTest, CfgAttrImpl, Export, ExportNonsync,
          ExportOther, Derive}

\* The kinds of item: impl blocks (of a trait for a type), structs and enums
\* (whose attributes filter_out_cfg_attr_impl goes through), and functions
\* for every other kind that has attributes.
ItemKinds == {"impl", "struct", "enum", "fn"}

\* The attribute lists an item of each kind comes with: those of
\* testdata/simple-module.rs, and one for each attribute transform_ast looks
\* for on an item of the kind or passes over.
AttrLists(kind) ==
    CASE kind = "impl" ->
            {<< >>, <<Export>>, <<ExportNonsync>>, <<ExportOther>>, <<CfgImpl>>,
             <<CfgTest>>}
      [] kind = "struct" ->
            {<< >>, <<CfgImpl, Derive>>, <<CfgAttrImpl, Derive>>, <<CfgNotImpl>>}
      [] kind = "enum" ->
            {<< >>, <<CfgImpl>>, <<CfgAttrImpl>>}
      [] kind = "fn" ->
            {<< >>, <<CfgImpl>>, <<CfgNotImpl>>, <<CfgTest>>, <<CfgAttrImpl>>,
             <<Export>>}

\* An item of a file: its kind, its attributes and the name it declares.
Item(kind, attrs, name) == [kind |-> kind, attrs |-> attrs, name |-> name]

\* The kinds and attribute lists of the items.
ItemShapes == UNION {{<<k, a>> : a \in AttrLists(k)} : k \in ItemKinds}

\* The files syn::parse_file can return: the i-th item declares name i.
Files ==
    UNION {{[i \in 1..n |-> Item(c[i][1], c[i][2], i)] : c \in [1..n -> ItemShapes]} :
           n \in 0..MaxItems}

\* is_cfg_feature_impl
is_cfg_feature_impl(attr) == attr = CfgImpl

\* is_cfg_not_feature_impl
is_cfg_not_feature_impl(attr) == attr = CfgNotImpl

\* is_cfg_test
is_cfg_test(attr) == attr = CfgTest

\* should_remove_item
should_remove_item(item) ==
    \E i \in 1..Len(item.attrs) :
        is_cfg_feature_impl(item.attrs[i]) \/ is_cfg_test(item.attrs[i])

\* InterfaceType::supertraits
supertraits(iface_typ) ==
    CASE iface_typ = "NonSync" -> <<"Send", "'static">>
      [] iface_typ = "Sync" -> <<"Send", "Sync", "'static">>

\* declare_trait(..)[0]: the public trait named after the trait of the impl
\* block, without attributes.
declare_trait(imp, iface_typ) ==
    [kind |-> "trait", attrs |-> << >>, name |-> imp.name,
     supertraits |-> supertraits(iface_typ)]

\* The attribute is dylo::export, with or without arguments (lines 623-625).
is_dylo_export(attr) == attr \in {Export, ExportNonsync, ExportOther}

\* The interface type the attribute asks for (lines 627-637): Sync for the
\* bare path, NonSync for a list that mentions nonsync, otherwise none.
iface_typ_of(attr) ==
    CASE attr = Export -> "Sync"
      [] attr = ExportNonsync -> "NonSync"
      [] OTHER -> "None"

\* A filter_out_cfg_attr_impl that filters nothing out.
filter_out_nothing(attrs) == attrs

\* filter_out_cfg_attr_impl
filter_out_cfg_attr_impl(attrs) ==
    SelectSeq(attrs, LAMBDA attr : attr # CfgAttrImpl)

\* The traits the closure of transform_ast pushes for one item (lines
\* 621-646): one for each dylo::export attribute of an impl block that has an
\* interface type.
RECURSIVE Declared(_, _)
Declared(item, attrs) ==
    IF item.kind # "impl" \/ attrs = << >> THEN << >>
    ELSE (IF is_dylo_export(Head(attrs)) /\ iface_typ_of(Head(attrs)) # "None"
          THEN <<declare_trait(item, iface_typ_of(Head(attrs)))>>
          ELSE << >>) \o Declared(item, Tail(attrs))

\* The item as the closure leaves it (lines 647-655, 665-667).
Retained(item) ==
    LET filtered == IF item.kind \in {"enum", "struct"}
                    THEN filter_out_cfg_attr_impl(item.attrs)
                    ELSE item.attrs IN
    [item EXCEPT !.attrs =
        SelectSeq(filtered, LAMBDA attr : ~is_cfg_not_feature_impl(attr))]

\* The value of `keep` the closure returns (lines 618, 643, 661-662).
Keep(item) ==
    /\ ~(item.kind = "impl"
          /\ \E i \in 1..Len(item.attrs) : is_dylo_export(item.attrs[i]))
    /\ ~should_remove_item(item)

\* transform_ast: items.retain_mut over the items in order, pushing to
\* added_items.
RECURSIVE transform_ast(_)
transform_ast(items) ==
    IF items = << >> THEN [items |-> << >>, added_items |-> << >>]
    ELSE LET rest == transform_ast(Tail(items))
             item == Head(items) IN
         [items |-> (IF Keep(item) THEN <<Retained(item)>> ELSE << >>)
                        \o rest.items,
          added_items |-> Declared(item, item.attrs) \o rest.added_items]

\* Before transform_ast is called.
NoAst == [file |-> << >>, items |-> << >>, added_items |-> << >>, done |-> FALSE]

-----------------------------------------------------------------------------
\* dylo-cli: list_mods, prepare_consumer_cargo_file, FileSet and process_mod
\* (src/dylo-cli/src/main.rs lines 18-497) for one mod of the workspace.

\* The runs of the tool, at most.
MaxRuns == 2

SPEC_PATH == ".dylo/spec.rs"
SUPPORT_PATH == ".dylo/support.rs"

\* The mod directory mod-<name> and the consumer directory <name>.
Dirs == {"mod", "con"}

\* The files of a directory that process_mod reads or generates.
RelPaths == {"Cargo.toml", "src/lib.rs", "src/.dylo/spec.rs",
             "src/.dylo/support.rs"}

\* What a file holds.
Content(kind, body) == [kind |-> kind, body |-> body]

\* The file does not exist.
Absent == Content("absent", << >>)

\* A manifest: its package name and the keys of its dependencies table, or
\* no dependencies table.
Manifest(name, deps) == Content("manifest", <<name>> \o deps)
ManifestWithoutDeps(name) == Content("manifest without dependencies", <<name>>)

\* A Rust file as prettyplease::unparse prints its items.
Rust(items) == Content("rust", items)

\* include_str!("init_template.rs") and include_str!("load_template.rs")
InitTemplate == Content("template", <<"init_template.rs">>)
LoadTemplate == Content("template", <<"load_template.rs">>)

\* The item include!("<path>");
Include(path) == Item("macro", << >>, path)

\* The src/lib.rs files of the mod: a function; an exported impl block with
\* its impl-only struct; a file that includes the spec already; and a file
\* whose include of the support code is gated by the impl feature.
LibSources ==
    {<<Item("fn", << >>, "f")>>,
     <<Item("impl", <<Export>>, "Mod"), Item("struct", <<CfgImpl, Derive>>, "ModImpl")>>,
     <<Include(SPEC_PATH), Item("fn", <<CfgNotImpl>>, "g")>>,
     <<Item("macro", <<CfgImpl>>, SUPPORT_PATH), Item("enum", << >>, "E")>>}

\* The Cargo.toml files of the mod: without a dependencies table, with dylo
\* alone, and with dylo-runtime already there.
ManifestSources ==
    {ManifestWithoutDeps("mod-x"),
     Manifest("mod-x", <<"dylo">>),
     Manifest("mod-x", <<"dylo-runtime", "serde">>)}

\* The elements of a sequence.
Range(seq) == {seq[i] : i \in 1..Len(seq)}

\* The largest of a set of timestamps; UNIX_EPOCH is 0.
Latest(S) == IF S = {} THEN 0 ELSE CHOOSE x \in S : \A y \in S : y <= x

\* con_path.exists()
exists(w, dir) == \E p \in RelPaths : w.files[<<dir, p>>] # Absent

\* get_latest_timestamp: the latest modification time under the directory
\* (no path of the two directories has a .con component).
get_latest_timestamp(w, dir) ==
    Latest({w.mtime[<<dir, p>>] : p \in {q \in RelPaths : w.files[<<dir, q>>] # Absent}})

\* A comparison of the timestamps that takes equal ones as newer.
is_modified_or_same(mod_timestamp, con_timestamp) == mod_timestamp >= con_timestamp

\* mod_info.mod_timestamp > mod_info.con_timestamp
is_modified(mod_timestamp, con_timestamp) == mod_timestamp > con_timestamp

\* The reason of process_mod (lines 291-299), "None" where it returns.
ProcessReason(force, con_exists, mod_timestamp, con_timestamp) ==
    IF force THEN "Force"
    ELSE IF ~con_exists THEN "Missing"
    ELSE IF is_modified(mod_timestamp, con_timestamp) THEN "Modified"
    ELSE "None"

\* prepare_consumer_cargo_file: the name loses its mod- prefix; dylo is
\* removed from the dependencies table and dylo-runtime inserted (in place
\* when the key is there, at the end otherwise).
prepare_consumer_cargo_file(mod_cargo) ==
    IF mod_cargo.kind = "manifest"
    THEN LET deps == SelectSeq(Tail(mod_cargo.body), LAMBDA d : d # "dylo") IN
         Manifest("x", IF "dylo-runtime" \in Range(deps) THEN deps
                       ELSE Append(deps, "dylo-runtime"))
    ELSE ManifestWithoutDeps("x")

\* The paths of the include!(..) items among items (lines 329-342, 409-420).
include_paths(items) ==
    {items[i].name : i \in {j \in 1..Len(items) : items[j].kind = "macro"}}

\* Suffixes added whatever the file includes.
added_suffixes_always(items) == <<Include(SPEC_PATH), Include(SUPPORT_PATH)>>

\* added_suffixes (lines 421-428)
added_suffixes(items) ==
    (IF SPEC_PATH \in include_paths(items) THEN << >> ELSE <<Include(SPEC_PATH)>>)
    \o (IF SUPPORT_PATH \in include_paths(items) THEN << >>
        ELSE <<Include(SUPPORT_PATH)>>)

\* mod_files (lines 370-434): Cargo.toml when dylo-runtime is added to
\* a dependencies table, the spec, the support code, and src/lib.rs when
\* includes are added.
mod_files(w) ==
    LET cargo_toml == w.files[<<"mod", "Cargo.toml">>]
        lib_rs == w.files[<<"mod", "src/lib.rs">>].body
        suffixes == added_suffixes(lib_rs)
        need_dylo_runtime == "dylo-runtime" \notin Range(Tail(cargo_toml.body))
    IN  (IF need_dylo_runtime /\ cargo_toml.kind = "manifest"
         THEN "Cargo.toml" :> Manifest(Head(cargo_toml.body),
                                       Append(Tail(cargo_toml.body), "dylo-runtime"))
         ELSE << >>)
        @@ ("src/.dylo/spec.rs" :> Rust(transform_ast(lib_rs).added_items))
        @@ ("src/.dylo/support.rs" :> InitTemplate)
        @@ (IF suffixes # << >>
            THEN "src/lib.rs" :> Rust(lib_rs \o suffixes)
            ELSE << >>)

\* con_files (lines 309-361, 436-452): the consumer manifest, the items
\* transform_ast keeps followed by the includes that are missing among them,
\* the spec and the support code.
con_files(w) ==
    LET lib_rs == w.files[<<"mod", "src/lib.rs">>].body
        out == transform_ast(lib_rs)
        con_items == out.items \o added_suffixes(out.items)
    IN  ("Cargo.toml" :> prepare_consumer_cargo_file(w.files[<<"mod", "Cargo.toml">>]))
        @@ ("src/lib.rs" :> Rust(con_items))
        @@ ("src/.dylo/spec.rs" :> Rust(out.added_items))
        @@ ("src/.dylo/support.rs" :> LoadTemplate)

\* The contents of two files are the same.
Same(a, b) == a.kind = b.kind /\ a.body = b.body

\* FileSet::is_different
is_different(w, set, dir) ==
    \E p \in DOMAIN set : ~Same(w.files[<<dir, p>>], set[p])

\* The files FileSet::commit writes, at time now.
commit(w, set, dir, now) ==
    [w EXCEPT !.files = [q \in DOMAIN w.files |->
                            IF q[1] = dir /\ q[2] \in DOMAIN set THEN set[q[2]]
                            ELSE w.files[q]],
              !.mtime = [q \in DOMAIN w.mtime |->
                            IF q[1] = dir /\ q[2] \in DOMAIN set THEN now
                            ELSE w.mtime[q]]]

\* What the last run of the tool saw and did; before the first run, nothing.
NoRun ==
    [ran |-> FALSE, force |-> FALSE, con_exists |-> FALSE, mod_timestamp |-> 0,
     con_timestamp |-> 0, read |-> FALSE, written |-> {}, rewritten |-> {},
     check |-> FALSE, exit |-> 0, again |-> FALSE, prior |-> {}]

\* A workspace whose mod was never processed: the two source files, written
\* at time 1, and no consumer directory.
Workspace(lib_rs, cargo_toml) ==
    [files |-> [q \in Dirs \X RelPaths |->
                   IF q = <<"mod", "src/lib.rs">> THEN Rust(lib_rs)
                   ELSE IF q = <<"mod", "Cargo.toml">> THEN cargo_toml
                   ELSE Absent],
     mtime |-> [q \in Dirs \X RelPaths |->
                   IF q \in {<<"mod", "src/lib.rs">>, <<"mod", "Cargo.toml">>}
                   THEN 1 ELSE 0],
     clock |-> 1,
     runs |-> 0,
     fresh |-> FALSE,
     last |-> NoRun]

\* Before any workspace is looked at.
NoWorkspace == Workspace(<< >>, ManifestWithoutDeps("mod-x"))

-----------------------------------------------------------------------------
\* dylo-cli: add_dependency, ensure_impl_feature and remove_dependency
\* (src/dylo-cli/src/dependency.rs lines 5-191) on the Cargo.toml of one mod.

\* The add and remove commands run, at most.
MaxOps == 2

\* The crates the commands name.
DepNames == {"serde", "tokio"}

\* A dependency as given on the command line: <name> or <name>@<version>.
DepArg(name, version) == [name |-> name, version |-> version]

\* The text of the argument.
Raw(dep) == IF dep.version = "" THEN dep.name ELSE dep.name \o "@" \o dep.version

\* dep.split_once('@'): the part before the first '@', or all of it.
dep_name(dep) == dep.name

\* The argument lists of add: one dependency, one with a version, two, and
\* one that names a crate twice.
AddArgs ==
    {<<DepArg("tokio", "")>>, <<DepArg("tokio", "1")>>,
     <<DepArg("serde", ""), DepArg("tokio", "1")>>,
     <<DepArg("tokio", ""), DepArg("tokio", "1")>>}

\* The argument lists of remove: the names of dependencies.
RemoveArgs == {<<DepArg("tokio", "")>>, <<DepArg("serde", ""), DepArg("tokio", "")>>}

\* format!("dep:{dep_name}")
dep_feature(name) == "dep:" \o name

\* The manifest of a mod: per crate whether it is a dependency and optional,
\* whether there is a features table, and in it the impl feature (has_impl,
\* impl) and the names of the other features.
ManifestOf(dependencies, has_features, has_impl, impl, others) ==
    [dependencies |-> dependencies, has_features |-> has_features,
     has_impl |-> has_impl, impl |-> impl, others |-> others]

\* The manifests the commands start from: no features table; an impl feature
\* that is empty, that lists features, and one that lists serde as impl-only
\* dependency between two features.
Manifests ==
    {ManifestOf([d \in DepNames |-> "none"], FALSE, FALSE, << >>, {}),
     ManifestOf([d \in DepNames |-> "none"], TRUE, TRUE, << >>, {"default"}),
     ManifestOf([d \in DepNames |-> "none"], TRUE, TRUE, <<"std">>, {"std", "tokio"}),
     ManifestOf([d \in DepNames |-> IF d = "serde" THEN "optional" ELSE "none"],
                TRUE, TRUE, <<"std", "dep:serde", "alloc">>, {"std", "alloc"})}

\* What the last command was and did; before the first, nothing.
NoOp ==
    [op |-> "none", ok |-> FALSE, deps |-> << >>, is_impl |-> FALSE,
     before |-> ManifestOf([d \in DepNames |-> "none"], FALSE, FALSE, << >>, {}),
     wrote |-> FALSE]

\* The manifest, the last command and the one before it.
TomlOf(manifest) == [manifest |-> manifest, ops |-> 0, last |-> NoOp, prev |-> NoOp]

\* Before any manifest is looked at.
NoToml == TomlOf(NoOp.before)

\* cargo add [--optional]: every named crate becomes a dependency, optional
\* with the flag; with the flag cargo may also add the feature <name> =
\* ["dep:<name>"] to the features table.
cargo_add(manifest, deps, optional, auto) ==
    LET names == {dep_name(deps[i]) : i \in 1..Len(deps)} IN
    [manifest EXCEPT
        !.dependencies = [d \in DepNames |->
                             IF d \in names
                             THEN (IF optional THEN "optional" ELSE "required")
                             ELSE manifest.dependencies[d]],
        !.has_features = @ \/ (optional /\ auto),
        !.others = IF optional /\ auto THEN @ \cup names ELSE @]

\* cargo rm: the named crates are no dependencies any more; cargo may also
\* take their dep: entries out of the features.
cargo_rm(manifest, deps, gc) ==
    LET names == {Raw(deps[i]) : i \in 1..Len(deps)} IN
    [manifest EXCEPT
        !.dependencies = [d \in DepNames |->
                             IF d \in names THEN "none" ELSE manifest.dependencies[d]],
        !.impl = IF gc THEN SelectSeq(@, LAMBDA e : e \notin {dep_feature(n) : n \in names})
                 ELSE @]

\* An ensure_impl_feature that pushes the entry whether it is there or not.
RECURSIVE push_always(_, _)
push_always(impl, deps) ==
    IF deps = << >> THEN impl
    ELSE push_always(Append(impl, dep_feature(dep_name(Head(deps)))), Tail(deps))

\* The loop of ensure_impl_feature (lines 95-108): the entry of each
\* dependency is pushed unless the array has it.
RECURSIVE push_missing(_, _)
push_missing(impl, deps) ==
    IF deps = << >> THEN impl
    ELSE LET entry == dep_feature(dep_name(Head(deps))) IN
         push_missing(IF \E i \in 1..Len(impl) : impl[i] = entry THEN impl
                      ELSE Append(impl, entry),
                      Tail(deps))

\* ensure_impl_feature: the features table and the impl feature are created
\* when missing, then the entries are pushed.
ensure_impl_feature(manifest, deps) ==
    [manifest EXCEPT !.has_features = TRUE,
                     !.has_impl = TRUE,
                     !.impl = push_missing(IF manifest.has_impl THEN @ ELSE << >>, deps)]

\* A filter that keeps every entry.
keep_all(impl, deps) == impl

\* The filter of remove_dependency (lines 161-178): the entries that are not
\* "dep:<dep>" for an argument dep, in order.
new_array(impl, deps) ==
    SelectSeq(impl, LAMBDA feature_str :
                        \A i \in 1..Len(deps) : feature_str # dep_feature(Raw(deps[i])))

----------------------------------------------------------------------------
\* The process before the first call of load_mod: no thread is in it, LOCKS
\* is empty, nothing was spawned, copied or opened.
Boot ==
    /\ pc = [t \in Threads |-> "idle"]
    /\ cur = [t \in Threads |-> "alpha"]
    /\ ret = [t \in Threads |-> NoHandle]
    /\ work = [t \in Threads |-> {}]
    /\ warm = [t \in Threads |-> FALSE]
    /\ plugin = [t \in Threads |-> NoHandle]
    /\ panic = [t \in Threads |-> NoMsg]
    /\ calls = 0
    /\ regLock = NoThread
    /\ registry = {}
    /\ slotLock = [m \in Modules |-> NoThread]
    /\ poisoned = [m \in Modules |-> FALSE]
    /\ slot = [m \in Modules |-> NoHandle]
    /\ exeDbg = [m \in Modules |-> FALSE]
    /\ targetDbg = [m \in Modules |-> FALSE]
    /\ child = [m \in Modules |-> NoChild]
    /\ spawned = [m \in Modules |-> 0]
    /\ copied = [m \in Modules |-> 0]
    /\ dlopened = [m \in Modules |-> 0]
    /\ handles = [m \in Modules |-> 0]
    /\ inits = [m \in Modules |-> 0]
    /\ reported = [m \in Modules |-> << >>]
    /\ stranded = [m \in Modules |-> {}]

\* The process and the tools before anything has run.
Start ==
    /\ Boot
    /\ aux = [bm |-> BuildIdle, ast |-> NoAst, ws |-> NoWorkspace, toml |-> NoToml]

\* A home directory, no DYLO_TARGET_DIR and no DYLO_BUILD, the source
\* directory of every module, and no library built yet.
Plain ==
    /\ DYLO_BUILD = "unset"
    /\ DYLO_TARGET_DIR = "unset"
    /\ HOME = TRUE
    /\ paths = [m \in Modules |-> TRUE]
    /\ exeLib = [m \in Modules |-> "absent"]
    /\ targetLib = [m \in Modules |-> "absent"]

\* A process started with a home directory and no DYLO_TARGET_DIR, before any
\* build of it has filled the target directory. DYLO_BUILD = "1" is left to
\* EnvInit: from_env, the only reader of the variable, maps it to the mode of
\* the unset variable. The module whose source directory may be missing is
\* alpha; that of beta is there.
Init ==
    /\ Start
    /\ DYLO_BUILD \in BuildEnvValues \ {"1"}
    /\ DYLO_TARGET_DIR = "unset"
    /\ HOME = TRUE
    /\ paths \in [Modules -> BOOLEAN]
    /\ paths["beta"]
    /\ exeLib \in [Modules -> LibKinds]
    /\ targetLib = [m \in Modules |-> "absent"]

----------------------------------------------------------------------------
\* A registry guard that lives on past the block, as it would if `slot` were
\* computed without the inner braces.
RegistryGuardKept(t) == t

\* The holder of the LOCKS mutex once the block of lines 292-295 ends: the
\* guard `locks` is dropped there.
RegistryGuardAfterBlock(t) == NoThread

\* A slot mutex that excludes nobody, as when every call made its own slot
\* instead of cloning the Arc stored in the map.
SlotNeverHeld(m) == TRUE

\* Whether slot.lock() can return: the mutex of m's slot is not held.
SlotFree(m) == slotLock[m] = NoThread

\* A lock that ignores poisoning, as lock().unwrap_or_else(|e| e.into_inner())
\* or a non-poisoning mutex would.
PoisonIgnored(m) == FALSE

\* Whether slot.lock() yields Err(PoisonError), which unwrap() turns into a
\* panic.
LockPoisoned(m) == poisoned[m]

\* A load_mod that never looks at the slot's content before building.
CacheNeverHit(m) == FALSE

\* `if let Some(fat_pointer) = locked_slot.as_ref()`
AlreadyLoaded(m) == slot[m] # NoHandle

\* A guard that is leaked instead of dropped when the thread panics.
SlotGuardLeaked(t) == t

\* The holder of the slot mutex after a panic unwound the frame of load_mod:
\* the guard `locked_slot` is dropped.
SlotGuardAfterPanic(t) == NoThread

\* A load_mod that closes the library it opened when it cannot use it.
HandlesClosedOnPanic(n) == n - 1

\* The open handles of a library after load_mod panicked past its dlopen: as
\* many as before, load_mod has no dlclose (line 326).
HandlesAfterPanic(n) == n

\* A loader that falls back on the library in the cargo target directory.
dlopen_searches_target(m) == exeLib[m] = "absent" /\ targetLib[m] = "absent"

\* dlopen(dylib_path, RTLD_NOW) returns null: there is no loadable file at
\* load_mod's dylib_path.
dlopen_is_null(m) == exeLib[m] = "absent"

\* The callers blocked in slot.lock() on m's slot mutex.
Blocked(m) == {u \in Threads : pc[u] = "slot_lock" /\ cur[u] = m}

\* A panic of thread t while it holds the slot mutex of its module.
Unwind(t) ==
    /\ pc' = [pc EXCEPT ![t] = "failed"]
    /\ slotLock' = [slotLock EXCEPT ![cur[t]] = SlotGuardAfterPanic(t)]
    /\ poisoned' = [poisoned EXCEPT ![cur[t]] = TRUE]
    /\ stranded' = [stranded EXCEPT ![cur[t]] = @ \cup Blocked(cur[t])]

\* Thread t panics with message msg while it holds the slot mutex.
Panic(t, msg) ==
    /\ Unwind(t)
    /\ panic' = [panic EXCEPT ![t] = msg]

\* A step of build_mod or load_mod that does not panic.
NoPanic == UNCHANGED <<slotLock, poisoned, stranded, panic>>

\* A thread enters load_mod(m).
Call(t, m) ==
    /\ pc[t] \in {"idle", "done", "failed"}
    /\ calls < MaxCalls
    /\ calls' = calls + 1
    /\ pc' = [pc EXCEPT ![t] = "reg_lock"]
    /\ cur' = [cur EXCEPT ![t] = m]
    /\ ret' = [ret EXCEPT ![t] = NoHandle]
    /\ work' = [work EXCEPT ![t] = {}]
    /\ warm' = [warm EXCEPT ![t] = slot[m] # NoHandle]
    /\ panic' = [panic EXCEPT ![t] = NoMsg]
    /\ UNCHANGED <<plugin, lockVars, envVars, aux, fsVars, child, countVars, reported>>

\* LOCKS.lock().unwrap()
RegLock(t) ==
    /\ pc[t] = "reg_lock"
    /\ regLock = NoThread
    /\ regLock' = t
    /\ pc' = [pc EXCEPT ![t] = "reg_entry"]
    /\ UNCHANGED <<cur, ret, work, warm, plugin, panic, calls, registry, slotLock,
                   poisoned, slot, stranded, envVars, aux, fsVars, child, countVars, reported>>

\* locks.entry(mod_name).or_default().clone(), then the guard is dropped
RegEntry(t) ==
    /\ pc[t] = "reg_entry"
    /\ registry' = registry \cup {cur[t]}
    /\ regLock' = RegistryGuardAfterBlock(t)
    /\ pc' = [pc EXCEPT ![t] = "slot_lock"]
    /\ UNCHANGED <<cur, ret, work, warm, plugin, panic, calls, slotLock,
                   poisoned, slot, stranded, envVars, aux, fsVars, child, countVars, reported>>

\* slot.lock().unwrap()
SlotLock(t) ==
    /\ pc[t] = "slot_lock"
    /\ SlotFree(cur[t])
    /\ IF LockPoisoned(cur[t])
       THEN /\ pc' = [pc EXCEPT ![t] = "failed"]
            /\ panic' = [panic EXCEPT ![t] = Msg("PoisonError", "")]
            /\ UNCHANGED slotLock
       ELSE /\ pc' = [pc EXCEPT ![t] = "check"]
            /\ slotLock' = [slotLock EXCEPT ![cur[t]] = t]
            /\ UNCHANGED panic
    /\ stranded' = [stranded EXCEPT ![cur[t]] = @ \ {t}]
    /\ UNCHANGED <<cur, ret, work, warm, plugin, calls, regLock, registry,
                   poisoned, slot, envVars, aux, fsVars, child, countVars, reported>>

\* lines 297-300: return the cached handle, or go on to build_mod
Check(t) ==
    /\ pc[t] = "check"
    /\ IF AlreadyLoaded(cur[t])
       THEN /\ ret' = [ret EXCEPT ![t] = slot[cur[t]]]
            /\ slotLock' = [slotLock EXCEPT ![cur[t]] = NoThread]
            /\ pc' = [pc EXCEPT ![t] = "done"]
       ELSE /\ pc' = [pc EXCEPT ![t] = "bm_paths"]
            /\ UNCHANGED <<ret, slotLock>>
    /\ UNCHANGED <<cur, work, warm, plugin, panic, calls, regLock, registry,
                   poisoned, slot, stranded, envVars, aux, fsVars, child, countVars, reported>>

\* build_mod, lines 141-154: get_paths, BuildMod::from_env, should_build
BmPaths(t) ==
    /\ pc[t] = "bm_paths"
    /\ work' = [work EXCEPT ![t] = @ \cup {"resolve"}]
    /\ IF ~get_paths(cur[t])
       THEN Panic(t, get_paths_panic(cur[t]))
       ELSE /\ pc' = [pc EXCEPT ![t] =
                        IF should_build(from_env(DYLO_BUILD))
                        THEN "bm_spawn" ELSE "dlopen"]
            /\ NoPanic
    /\ UNCHANGED <<cur, ret, warm, plugin, calls, regLock, registry, slot,
                   envVars, aux, fsVars, child, countVars, reported>>

\* build_mod, lines 183-206: spawn `cargo build`, piped unless verbose;
\* spawn() itself can fail (expect panics).
BmSpawn(t) ==
    /\ pc[t] = "bm_spawn"
    /\ \E ok \in BOOLEAN :
         IF ok
         THEN /\ child' = [child EXCEPT ![cur[t]] =
                    [NoChild EXCEPT !.state = "running",
                                    !.piped = ~is_verbose(from_env(DYLO_BUILD)),
                                    !.target = get_target_dir(cur[t])]]
              /\ spawned' = [spawned EXCEPT ![cur[t]] = @ + 1]
              /\ work' = [work EXCEPT ![t] = @ \cup {"spawn"}]
              /\ pc' = [pc EXCEPT ![t] = "bm_wait"]
              /\ NoPanic
         ELSE /\ Panic(t, Msg("Failed to spawn cargo build process", ""))
              /\ UNCHANGED <<child, spawned, work>>
    /\ UNCHANGED <<cur, ret, warm, plugin, calls, regLock, registry, slot,
                   envVars, aux, fsVars, copied, dlopened, handles, inits, reported>>

\* The cargo child writes its output, leaves its artifacts in the target
\* directory when it succeeds, and exits. The child runs in mod_srcdir (line
\* 193/200): a relative CARGO_TARGET_DIR names for it the directory build_mod
\* copies from only when the process runs in mod_srcdir too.
ChildExit(m) ==
    /\ child[m].state = "running"
    /\ \E st \in {0, 1}, w \in ChildOutputs :
         /\ child' = [child EXCEPT ![m] =
                [@ EXCEPT !.state = "exited", !.status = st,
                          !.out = w.out, !.err = w.err]]
         /\ IF st = 0
            THEN \E a \in Artifacts, same_dir \in BOOLEAN :
                   /\ is_absolute(child[m].target) => same_dir
                   /\ IF same_dir
                      THEN /\ targetLib' = [targetLib EXCEPT ![m] = a.lib]
                           /\ targetDbg' = [targetDbg EXCEPT ![m] = a.dbg]
                      ELSE UNCHANGED <<targetLib, targetDbg>>
            ELSE UNCHANGED <<targetLib, targetDbg>>
    /\ UNCHANGED <<thrVars, lockVars, envVars, aux, exeLib, exeDbg, countVars, reported>>

\* build_mod, lines 237-254: wait for the child, join the readers and the
\* collector, and panic after printing the log when the build failed.
BmWait(t) ==
    /\ pc[t] = "bm_wait"
    /\ child[cur[t]].state = "exited"
    /\ child' = [child EXCEPT ![cur[t]] = NoChild]
    /\ \E lines \in CollectedLogs(child[cur[t]]) :
         IF ~success(child[cur[t]].status)
         THEN /\ reported' = [reported EXCEPT ![cur[t]] = <<LogHeader>> \o lines]
              /\ Panic(t, Msg("Failed to build", ""))
         ELSE /\ pc' = [pc EXCEPT ![t] = "bm_copy"]
              /\ UNCHANGED reported
              /\ NoPanic
    /\ UNCHANGED <<cur, ret, work, warm, plugin, calls, regLock, registry, slot,
                   envVars, aux, fsVars, countVars>>

\* build_mod, lines 256-262: copy the built library to dylib_path; exeLib is
\* the file at the path load_mod opens, which the copy replaces when it is
\* made to that path.
BmCopy(t) ==
    /\ pc[t] = "bm_copy"
    /\ IF targetLib[cur[t]] = "absent"
       THEN /\ Panic(t, Msg("Failed to copy built module", ""))
            /\ UNCHANGED <<exeLib, copied, work>>
       ELSE /\ exeLib' = IF build_dylib_path(cur[t]) = load_dylib_path(cur[t])
                         THEN [exeLib EXCEPT ![cur[t]] = targetLib[cur[t]]]
                         ELSE exeLib
            /\ copied' = [copied EXCEPT ![cur[t]] = @ + 1]
            /\ work' = [work EXCEPT ![t] = @ \cup {"copy"}]
            /\ pc' = [pc EXCEPT ![t] = "bm_copy_dbg"]
            /\ NoPanic
    /\ UNCHANGED <<cur, ret, warm, plugin, calls, regLock, registry, slot,
                   envVars, aux, exeDbg, targetLib, targetDbg, child, spawned,
                   dlopened, handles, inits, reported>>

\* build_mod, lines 264-272: copy the debug info if the build left one
BmCopyDbg(t) ==
    /\ pc[t] = "bm_copy_dbg"
    /\ exeDbg' = [exeDbg EXCEPT ![cur[t]] = @ \/ targetDbg[cur[t]]]
    /\ pc' = [pc EXCEPT ![t] = "dlopen"]
    /\ UNCHANGED <<cur, ret, work, warm, plugin, panic, calls, lockVars, envVars, aux,
                   exeLib, targetLib, targetDbg, child, countVars, reported>>

\* load_mod, lines 305-324: dlopen the library beside the executable
Dlopen(t) ==
    /\ pc[t] = "dlopen"
    /\ IF dlopen_is_null(cur[t])
       THEN /\ Panic(t, Msg("Failed to load dynamic library", dlerror("dlopen")))
            /\ UNCHANGED <<dlopened, handles, work>>
       ELSE /\ dlopened' = [dlopened EXCEPT ![cur[t]] = @ + 1]
            /\ handles' = [handles EXCEPT ![cur[t]] = @ + 1]
            /\ work' = [work EXCEPT ![t] = @ \cup {"dlopen"}]
            /\ pc' = [pc EXCEPT ![t] = "dlsym"]
            /\ NoPanic
    /\ UNCHANGED <<cur, ret, warm, plugin, calls, regLock, registry, slot,
                   envVars, aux, fsVars, child, spawned, copied, inits, reported>>

\* load_mod, lines 328-335: resolve the entry-point symbol
Dlsym(t) ==
    /\ pc[t] = "dlsym"
    /\ IF dlsym_is_null(exeLib[cur[t]], symbol_name)
       THEN /\ Panic(t, Msg("Did not find in dynamic library", dlerror("dlsym")))
            /\ handles' = [handles EXCEPT ![cur[t]] = HandlesAfterPanic(@)]
       ELSE /\ pc' = [pc EXCEPT ![t] = "init"]
            /\ NoPanic
            /\ UNCHANGED handles
    /\ UNCHANGED <<cur, ret, work, warm, plugin, calls, regLock, registry, slot,
                   envVars, aux, fsVars, child, spawned, copied, dlopened, inits,
                   reported>>

\* load_mod, lines 337-339: invoke the entry point; it returns a fresh
\* handle, or the module's constructor panics.
InitFn(t) ==
    /\ pc[t] = "init"
    /\ inits' = [inits EXCEPT ![cur[t]] = @ + 1]
    /\ work' = [work EXCEPT ![t] = @ \cup {"init"}]
    /\ \E ok \in BOOLEAN :
         IF ok
         THEN /\ plugin' = [plugin EXCEPT ![t] = inits'[cur[t]]]
              /\ pc' = [pc EXCEPT ![t] = "store"]
              /\ NoPanic
              /\ UNCHANGED handles
         ELSE /\ Panic(t, Msg("panic in the module", ""))
              /\ handles' = [handles EXCEPT ![cur[t]] = HandlesAfterPanic(@)]
              /\ UNCHANGED plugin
    /\ UNCHANGED <<cur, ret, warm, calls, regLock, registry, slot,
                   envVars, aux, fsVars, child, spawned, copied, dlopened, reported>>

\* load_mod, lines 346-347: store the handle, return it; the guard is dropped
Store(t) ==
    /\ pc[t] = "store"
    /\ slot' = [slot EXCEPT ![cur[t]] = plugin[t]]
    /\ ret' = [ret EXCEPT ![t] = plugin[t]]
    /\ plugin' = [plugin EXCEPT ![t] = NoHandle]
    /\ slotLock' = [slotLock EXCEPT ![cur[t]] = NoThread]
    /\ pc' = [pc EXCEPT ![t] = "done"]
    /\ UNCHANGED <<cur, work, warm, panic, calls, regLock, registry, poisoned,
                   stranded, envVars, aux, fsVars, child, countVars, reported>>

Next ==
    \/ \E t \in Threads, m \in Modules : Call(t, m)
    \/ \E t \in Threads : RegLock(t)
    \/ \E t \in Threads : RegEntry(t)
    \/ \E t \in Threads : SlotLock(t)
    \/ \E t \in Threads : Check(t)
    \/ \E t \in Threads : BmPaths(t)
    \/ \E t \in Threads : BmSpawn(t)
    \/ \E m \in Modules : ChildExit(m)
    \/ \E t \in Threads : BmWait(t)
    \/ \E t \in Threads : BmCopy(t)
    \/ \E t \in Threads : BmCopyDbg(t)
    \/ \E t \in Threads : Dlopen(t)
    \/ \E t \in Threads : Dlsym(t)
    \/ \E t \in Threads : InitFn(t)
    \/ \E t \in Threads : Store(t)

Spec == Init /\ [][Next]_vars

\* The steps thread t takes inside load_mod once it has called it.
ThreadStep(t) ==
    \/ RegLock(t) \/ RegEntry(t) \/ SlotLock(t) \/ Check(t)
    \/ BmPaths(t) \/ BmSpawn(t) \/ BmWait(t) \/ BmCopy(t) \/ BmCopyDbg(t)
    \/ Dlopen(t) \/ Dlsym(t) \/ InitFn(t) \/ Store(t)

\* The initial states of the liveness property: a building and the skipping
\* mode, get_paths failing or not and every kind of library for alpha, with
\* beta in order.
FairInit ==
    /\ Init
    /\ DYLO_BUILD \in {"unset", "0"}
    /\ paths["beta"] /\ exeLib["beta"] = "good"

\* The operating system keeps running every thread that can take a step, and
\* every cargo child terminates.
FairSpec ==
    /\ FairInit /\ [][Next]_vars
    /\ \A t \in Threads : WF_vars(ThreadStep(t))
    /\ \A m \in Modules : WF_vars(ChildExit(m))

\* The initial states in which the directories vary: DYLO_TARGET_DIR of every
\* kind, a home directory or none, a building and the skipping mode, and a
\* library of alpha left in the target directory by an earlier run but not
\* beside the executable.
EnvInit ==
    /\ Start
    /\ DYLO_BUILD \in {"1", "0"}
    /\ DYLO_TARGET_DIR \in TargetDirValues
    /\ HOME \in BOOLEAN
    /\ HOME \/ DYLO_TARGET_DIR = "unset"
    /\ paths = [m \in Modules |-> TRUE]
    /\ exeLib = [m \in Modules |-> IF m = "alpha" THEN "absent" ELSE "good"]
    /\ targetLib \in [Modules -> {"absent", "good"}]
    /\ targetLib["beta"] = "absent"

EnvSpec == EnvInit /\ [][Next]_vars

-----------------------------------------------------------------------------
\* build_mod in detail (lines 150-254): one call, with the cargo child writing
\* lines to its two streams, the two reader threads, the mpsc channel and the
\* collector thread.

\* The lines the cargo child writes before it exits, at most.
MaxWrites == 3

\* The lines an operating-system pipe holds before a write to it blocks.
PipeCap == 2

\* Reader threads that take turns: the one of stderr reads only when the one
\* of stdout has finished.
ReadersInTurn(s) == s = "stdout" \/ bm.reader["stdout"] = "done"

\* std::thread::spawn in spawn_reader_thread: each reader is a thread of its
\* own, which runs whatever the other one does.
ReaderMayRun(s) == TRUE

\* if !build_mode.should_build() { return; }
BuildSkip ==
    /\ bm.pc = "idle"
    /\ ~should_build(from_env(DYLO_BUILD))
    /\ aux' = [aux EXCEPT !.bm = [bm EXCEPT !.pc = "returned"]]
    /\ UNCHANGED loaderVars

\* Command::new("cargo") ... .spawn(): the streams of the child are the
\* terminal in verbose mode and two pipes otherwise.
BuildSpawn ==
    /\ bm.pc = "idle"
    /\ should_build(from_env(DYLO_BUILD))
    /\ LET noisy_builds == is_verbose(from_env(DYLO_BUILD)) IN
        aux' = [aux EXCEPT !.bm = [bm EXCEPT !.pc = "threads",
                                             !.cargo = "running",
                                             !.piped = ~noisy_builds,
                                             !.open = [s \in Streams |-> ~noisy_builds]]]
    /\ UNCHANGED loaderVars

\* channel(), the two spawn_reader_thread calls with tx.clone(), and the
\* collector thread: three senders exist.
SpawnThreads ==
    /\ bm.pc = "threads"
    /\ aux' = [aux EXCEPT !.bm = [bm EXCEPT !.pc = "drop_tx",
                                            !.reader = [s \in Streams |-> "running"],
                                            !.collect = "running",
                                            !.senders = 3]]
    /\ UNCHANGED loaderVars

\* drop(tx)
DropTx ==
    /\ bm.pc = "drop_tx"
    /\ aux' = [aux EXCEPT !.bm = [bm EXCEPT !.pc = "wait", !.senders = @ - 1]]
    /\ UNCHANGED loaderVars

\* The child decides to write its next line to stream s.
CargoNext(s, utf8) ==
    /\ bm.cargo = "running"
    /\ bm.pending = NoWrite
    /\ bm.nwrites < MaxWrites
    /\ aux' = [aux EXCEPT !.bm = [bm EXCEPT !.nwrites = @ + 1,
                                            !.pending = [stream |-> s, n |-> bm.nwrites + 1,
                                                         utf8 |-> utf8]]]
    /\ UNCHANGED loaderVars

\* The write of the child: to the terminal at once with inherited streams,
\* into the pipe when it has room, and with an error when the read end of the
\* pipe is closed.
CargoWrite ==
    /\ bm.cargo = "running"
    /\ bm.pending # NoWrite
    /\ LET s == bm.pending.stream
           l == Line(bm.pending.n, bm.pending.utf8) IN
        IF ~bm.piped
        THEN aux' = [aux EXCEPT !.bm = [bm EXCEPT !.pending = NoWrite,
                                                  !.terminal = Append(@, <<"cargo", s, l.n>>),
                                                  !.written[s] = Append(@, l)]]
        ELSE IF ~bm.open[s]
        THEN aux' = [aux EXCEPT !.bm = [bm EXCEPT !.pending = NoWrite]]
        ELSE /\ Len(bm.pipe[s]) < PipeCap
             /\ aux' = [aux EXCEPT !.bm = [bm EXCEPT !.pending = NoWrite,
                                                     !.pipe[s] = Append(@, l),
                                                     !.written[s] = Append(@, l)]]
    /\ UNCHANGED loaderVars

\* The child exits, which closes its ends of both streams.
CargoExit(status) ==
    /\ bm.cargo = "running"
    /\ bm.pending = NoWrite
    /\ aux' = [aux EXCEPT !.bm = [bm EXCEPT !.cargo = "exited", !.status = status]]
    /\ UNCHANGED loaderVars

\* One turn of the loop of spawn_reader_thread (lines 130-137): without a
\* stream the thread ends; a line of valid UTF-8 is sent tagged; lines() gives
\* Err for a line that is not UTF-8 and map_while(Result::ok) ends the loop on
\* it; the end of the stream ends the loop. Ending drops the stream and tx.
ReaderStep(s) ==
    /\ bm.reader[s] = "running"
    /\ ReaderMayRun(s)
    /\ IF ~bm.piped
       THEN aux' = [aux EXCEPT !.bm = [bm EXCEPT !.reader[s] = "done", !.senders = @ - 1]]
       ELSE IF bm.pipe[s] # << >>
       THEN LET l == Head(bm.pipe[s]) IN
            IF l.utf8
            THEN aux' = [aux EXCEPT !.bm = [bm EXCEPT !.pipe[s] = Tail(@),
                                                      !.channel = Append(@, Tag(s, l.n))]]
            ELSE aux' = [aux EXCEPT !.bm = [bm EXCEPT !.pipe[s] = << >>,
                                                      !.open[s] = FALSE,
                                                      !.reader[s] = "done",
                                                      !.senders = @ - 1]]
       ELSE /\ bm.cargo = "exited"
            /\ aux' = [aux EXCEPT !.bm = [bm EXCEPT !.open[s] = FALSE,
                                                    !.reader[s] = "done",
                                                    !.senders = @ - 1]]
    /\ UNCHANGED loaderVars

\* One turn of `for line in rx { output.push(line) }`: the loop ends when the
\* channel is empty and every sender is dropped.
CollectStep ==
    /\ bm.collect = "running"
    /\ IF bm.channel # << >>
       THEN aux' = [aux EXCEPT !.bm = [bm EXCEPT !.channel = Tail(@),
                                                 !.output = Append(@, Head(bm.channel))]]
       ELSE /\ bm.senders = 0
            /\ aux' = [aux EXCEPT !.bm = [bm EXCEPT !.collect = "done"]]
    /\ UNCHANGED loaderVars

\* child.wait()
ChildWait ==
    /\ bm.pc = "wait"
    /\ bm.cargo = "exited"
    /\ aux' = [aux EXCEPT !.bm = [bm EXCEPT !.pc = "join_stdout"]]
    /\ UNCHANGED loaderVars

\* stdout_thread.join()
JoinStdout ==
    /\ bm.pc = "join_stdout"
    /\ bm.reader["stdout"] = "done"
    /\ aux' = [aux EXCEPT !.bm = [bm EXCEPT !.pc = "join_stderr"]]
    /\ UNCHANGED loaderVars

\* stderr_thread.join()
JoinStderr ==
    /\ bm.pc = "join_stderr"
    /\ bm.reader["stderr"] = "done"
    /\ aux' = [aux EXCEPT !.bm = [bm EXCEPT !.pc = "join_collect"]]
    /\ UNCHANGED loaderVars

\* collect_thread.join()
JoinCollect ==
    /\ bm.pc = "join_collect"
    /\ bm.collect = "done"
    /\ aux' = [aux EXCEPT !.bm = [bm EXCEPT !.pc = "status"]]
    /\ UNCHANGED loaderVars

\* if !status.success() { the header, the collected lines, panic! }
CheckStatus ==
    /\ bm.pc = "status"
    /\ IF success(bm.status)
       THEN aux' = [aux EXCEPT !.bm = [bm EXCEPT !.pc = "returned"]]
       ELSE aux' = [aux EXCEPT !.bm = [bm EXCEPT !.pc = "failed",
                                                 !.terminal = @ \o <<LogHeader>> \o bm.output]]
    /\ UNCHANGED loaderVars

\* The steps of the thread that called build_mod.
BuildStep ==
    \/ BuildSkip \/ BuildSpawn \/ SpawnThreads \/ DropTx \/ ChildWait
    \/ JoinStdout \/ JoinStderr \/ JoinCollect \/ CheckStatus

\* The steps of the cargo child.
CargoStep ==
    \/ \E s \in Streams, utf8 \in BOOLEAN : CargoNext(s, utf8)
    \/ CargoWrite
    \/ \E status \in {0, 1} : CargoExit(status)

PipeNext ==
    \/ BuildSkip
    \/ BuildSpawn
    \/ SpawnThreads
    \/ DropTx
    \/ \E s \in Streams, utf8 \in BOOLEAN : CargoNext(s, utf8)
    \/ CargoWrite
    \/ \E status \in {0, 1} : CargoExit(status)
    \/ \E s \in Streams : ReaderStep(s)
    \/ CollectStep
    \/ ChildWait
    \/ JoinStdout
    \/ JoinStderr
    \/ JoinCollect
    \/ CheckStatus

\* One call of build_mod for a module whose source directory exists, under
\* every value of DYLO_BUILD.
PipeInit ==
    /\ Start
    /\ DYLO_BUILD \in AnyBuildEnvValues
    /\ DYLO_TARGET_DIR = "unset"
    /\ HOME = TRUE
    /\ paths = [m \in Modules |-> TRUE]
    /\ exeLib = [m \in Modules |-> "absent"]
    /\ targetLib = [m \in Modules |-> "absent"]

PipeSpec == PipeInit /\ [][PipeNext]_vars

\* The operating system keeps running the calling thread, the two readers and
\* the collector, and the cargo child runs until it exits.
PipeFairSpec ==
    /\ PipeSpec
    /\ WF_vars(BuildStep)
    /\ WF_vars(CargoStep)
    /\ \A s \in Streams : WF_vars(ReaderStep(s))
    /\ WF_vars(CollectStep)

-----------------------------------------------------------------------------
\* transform_ast applied to a parsed file (main.rs lines 307-311, tests.rs
\* lines 8-12).
TransformAst ==
    /\ ~ast.done
    /\ LET out == transform_ast(ast.file) IN
        aux' = [aux EXCEPT !.ast = [ast EXCEPT !.items = out.items,
                                               !.added_items = out.added_items,
                                               !.done = TRUE]]
    /\ UNCHANGED loaderVars

AstNext == TransformAst

\* Every file of at most MaxItems items.
AstInit ==
    /\ Boot
    /\ Plain
    /\ aux \in {[bm |-> BuildIdle, ast |-> [NoAst EXCEPT !.file = f],
                ws |-> NoWorkspace, toml |-> NoToml] : f \in Files}

AstSpec == AstInit /\ [][AstNext]_vars

-----------------------------------------------------------------------------
\* One run of the tool on the mod (main, lines 830-859): list_mods takes the
\* timestamps, process_mod decides, generates, compares and writes. The mod
\* files are stamped one tick after the clock and the consumer files in the
\* same tick or the next; cargo check passes or fails.
Run(force, tick, status) ==
    /\ ws.runs < MaxRuns
    /\ LET mod_timestamp == get_latest_timestamp(ws, "mod")
           con_exists == exists(ws, "con")
           con_timestamp == IF con_exists THEN get_latest_timestamp(ws, "con")
                            ELSE 0
           reason == ProcessReason(force, con_exists, mod_timestamp, con_timestamp)
           mods == mod_files(ws)
           cons == con_files(ws)
           mod_differs == reason # "None" /\ is_different(ws, mods, "mod")
           con_differs == reason # "None" /\ is_different(ws, cons, "con")
           t1 == ws.clock + 1
           t2 == t1 + tick
           w1 == IF mod_differs THEN commit(ws, mods, "mod", t1) ELSE ws
           w2 == IF con_differs THEN commit(w1, cons, "con", t2) ELSE w1
           written == (IF mod_differs THEN {<<"mod", p>> : p \in DOMAIN mods} ELSE {})
                      \cup (IF con_differs THEN {<<"con", p>> : p \in DOMAIN cons}
                            ELSE {})
       IN
        /\ tick = 1 => mod_differs /\ con_differs
        /\ status = 1 => con_differs
        /\ aux' = [aux EXCEPT !.ws = [w2 EXCEPT
                                        !.clock = IF written = {} THEN ws.clock ELSE t2,
                                        !.runs = @ + 1,
                                        !.fresh = TRUE,
                                        !.last = [ran |-> TRUE,
                                                  force |-> force,
                                                  con_exists |-> con_exists,
                                                  mod_timestamp |-> mod_timestamp,
                                                  con_timestamp |-> con_timestamp,
                                                  read |-> reason # "None",
                                                  written |-> written,
                                                  rewritten |-> {q \in written :
                                                                    Same(ws.files[q], w2.files[q])},
                                                  check |-> con_differs,
                                                  exit |-> IF con_differs /\ ~success(status) /\ ~force
                                                           THEN 1 ELSE 0,
                                                  again |-> ws.fresh,
                                                  prior |-> ws.last.written]]]
    /\ UNCHANGED loaderVars

\* Between two runs the user saves another src/lib.rs in the mod directory.
EditSource(lib_rs) ==
    /\ ws.fresh
    /\ ~Same(ws.files[<<"mod", "src/lib.rs">>], Rust(lib_rs))
    /\ aux' = [aux EXCEPT !.ws = [ws EXCEPT !.files[<<"mod", "src/lib.rs">>] = Rust(lib_rs),
                                            !.mtime[<<"mod", "src/lib.rs">>] = ws.clock + 1,
                                            !.clock = @ + 1,
                                            !.fresh = FALSE]]
    /\ UNCHANGED loaderVars

\* Between two runs the user removes the consumer directory.
RemoveCon ==
    /\ ws.fresh
    /\ exists(ws, "con")
    /\ aux' = [aux EXCEPT !.ws = [ws EXCEPT !.files = [q \in DOMAIN ws.files |->
                                                          IF q[1] = "con" THEN Absent ELSE ws.files[q]],
                                            !.mtime = [q \in DOMAIN ws.mtime |->
                                                          IF q[1] = "con" THEN 0 ELSE ws.mtime[q]],
                                            !.fresh = FALSE]]
    /\ UNCHANGED loaderVars

GenNext ==
    \/ \E force \in BOOLEAN, tick \in {0, 1}, status \in {0, 1} :
          Run(force, tick, status)
    \/ \E lib_rs \in LibSources : EditSource(lib_rs)
    \/ RemoveCon

\* Every mod of LibSources and ManifestSources, never processed.
GenInit ==
    /\ Boot
    /\ Plain
    /\ aux \in {[bm |-> BuildIdle, ast |-> NoAst, ws |-> Workspace(l, c),
                toml |-> NoToml] : l \in LibSources, c \in ManifestSources}

GenSpec == GenInit /\ [][GenNext]_vars

-----------------------------------------------------------------------------
\* add_dependency (lines 8-72): cargo add, and for an impl-only dependency
\* the impl feature is extended, the features named like the dependencies are
\* removed and the manifest is written back.
AddDependency(deps, is_impl, status, auto) ==
    /\ toml.ops < MaxOps
    /\ LET added == cargo_add(toml.manifest, deps, is_impl, auto)
           ensured == ensure_impl_feature(added, deps)
           cleaned == [ensured EXCEPT
                          !.others = @ \ {dep_name(deps[i]) : i \in 1..Len(deps)}]
       IN
        aux' = [aux EXCEPT !.toml = [manifest |-> IF ~success(status) THEN toml.manifest
                                                  ELSE IF is_impl THEN cleaned ELSE added,
                                     ops |-> toml.ops + 1,
                                     last |-> [op |-> "add", ok |-> success(status), deps |-> deps,
                                               is_impl |-> is_impl, before |-> toml.manifest,
                                               wrote |-> success(status) /\ is_impl],
                                     prev |-> toml.last]]
    /\ UNCHANGED loaderVars

\* remove_dependency (lines 116-191): cargo rm, then the impl feature, when
\* there is one, is filtered and the manifest written back when the filter
\* took something out.
RemoveDependency(deps, status, gc) ==
    /\ toml.ops < MaxOps
    /\ LET removed == cargo_rm(toml.manifest, deps, gc)
           filtered == new_array(removed.impl, deps)
           changed == /\ removed.has_features /\ removed.has_impl
                      /\ Len(filtered) # Len(removed.impl)
       IN
        aux' = [aux EXCEPT !.toml = [manifest |-> IF ~success(status) THEN toml.manifest
                                                  ELSE IF changed THEN [removed EXCEPT !.impl = filtered]
                                                  ELSE removed,
                                     ops |-> toml.ops + 1,
                                     last |-> [op |-> "rm", ok |-> success(status), deps |-> deps,
                                               is_impl |-> FALSE, before |-> toml.manifest,
                                               wrote |-> success(status) /\ changed],
                                     prev |-> toml.last]]
    /\ UNCHANGED loaderVars

DepNext ==
    \/ \E deps \in AddArgs, is_impl \in BOOLEAN, status \in {0, 1}, auto \in BOOLEAN :
          AddDependency(deps, is_impl, status, auto)
    \/ \E deps \in RemoveArgs, status \in {0, 1}, gc \in BOOLEAN :
          RemoveDependency(deps, status, gc)

\* Every manifest of Manifests, before any command.
DepInit ==
    /\ Boot
    /\ Plain
    /\ aux \in {[bm |-> BuildIdle, ast |-> NoAst, ws |-> NoWorkspace,
                toml |-> TomlOf(m)] : m \in Manifests}

DepSpec == DepInit /\ [][DepNext]_vars

----------------------------------------------------------------------------
\* Thread t is in the build+load phase: past the cache check, holding the slot
\* mutex, not yet returned.
InBuildLoad(t) ==
    pc[t] \in {"bm_paths", "bm_spawn", "bm_wait", "bm_copy", "bm_copy_dbg",
               "dlopen", "dlsym", "init", "store"}

\* Thread t has returned from load_mod(m) with a handle.
Returned(t, m) == pc[t] = "done" /\ cur[t] = m

\* C1 (single-flight): whatever the interleaving, the build command of a
\* module is spawned at most once, exactly once when the module got loaded in
\* a building mode, and all calls that returned for the module returned the
\* same handle.
C1_SingleFlight ==
    \A m \in Modules :
        /\ spawned[m] <= 1
        /\ (slot[m] # NoHandle /\ DYLO_BUILD # "0") => spawned[m] = 1
        /\ \A t \in Threads : Returned(t, m) => ret[t] # NoHandle
        /\ \A t, u \in Threads : Returned(t, m) /\ Returned(u, m) => ret[t] = ret[u]

\* Two calls for one module, both begun before its slot was filled, have
\* returned the same handle after exactly one build.
C1_Witness ==
    \E m \in Modules : \E t, u \in Threads :
        /\ t # u /\ Returned(t, m) /\ Returned(u, m)
        /\ ~warm[t] /\ ~warm[u]
        /\ ret[t] = ret[u] /\ ret[t] # NoHandle
        /\ spawned[m] = 1

\* C2: the entry point of a module is invoked at most once in the life of the
\* process, whether the calls succeed or fail.
C2_EntryPointAtMostOnce == \A m \in Modules : inits[m] <= 1

\* The entry point of a module ran and panicked, and a later call for the
\* same module has ended without running it again.
C2_Witness ==
    \E m \in Modules : \E t, u \in Threads :
        /\ t # u /\ inits[m] = 1 /\ slot[m] = NoHandle
        /\ pc[t] = "failed" /\ cur[t] = m /\ "init" \in work[t]
        /\ pc[u] = "failed" /\ cur[u] = m /\ work[u] = {}

\* C3: a filled slot is never changed or cleared, and every call that
\* returns for the module returns the value the slot holds.
C3_LoadedIsImmutable ==
    [][ /\ \A m \in Modules : slot[m] # NoHandle => slot'[m] = slot[m]
        /\ \A t \in Threads :
              pc'[t] = "done" => ret'[t] = slot'[cur'[t]] /\ ret'[t] # NoHandle
      ]_vars

\* One call filled the slot and returned it; a call begun after the slot was
\* filled has returned the same value, which the slot still holds.
C3_Witness ==
    \E m \in Modules : \E t, u \in Threads :
        /\ t # u /\ Returned(t, m) /\ Returned(u, m)
        /\ "init" \in work[t] /\ warm[u]
        /\ ret[t] = slot[m] /\ ret[u] = slot[m]

\* C4: a call made when the slot already holds a handle returns that handle
\* and does nothing else: it never enters build_mod (no path is resolved, no
\* process spawned, no file copied) and opens no library and invokes no entry
\* point.
C4_CachedCallDoesNoWork ==
    \A t \in Threads :
        warm[t] =>
            /\ work[t] = {}
            /\ pc[t] \in {"reg_lock", "reg_entry", "slot_lock", "check", "done"}
            /\ pc[t] = "done" => ret[t] = slot[cur[t]]

\* A call made after the module was loaded has returned.
C4_Witness ==
    \E t \in Threads :
        warm[t] /\ pc[t] = "done" /\ ret[t] # NoHandle /\ calls >= 2

\* C5: the registry mutex is held only for the find-or-insert step and is
\* released before the slot mutex is taken; a thread in the build+load phase
\* of a module holds neither the registry mutex nor the slot mutex of any
\* other module, so it blocks no call for another name.
C5_RegistryLockShortHeld ==
    \A t \in Threads :
        /\ regLock = t => pc[t] = "reg_entry"
        /\ InBuildLoad(t) =>
              /\ regLock # t
              /\ \A m \in Modules \ {cur[t]} : slotLock[m] # t

\* While one thread waits for the build of alpha, another is about to store
\* the handle of beta.
C5_Witness ==
    \E t, u \in Threads :
        /\ cur[t] = "alpha" /\ pc[t] = "bm_wait" /\ child["alpha"].state = "running"
        /\ cur[u] = "beta" /\ pc[u] = "store"

\* C6: a caller that was blocked on a module's slot mutex when the thread
\* building or loading the module panicked leaves slot.lock() by failing,
\* and from the panic on the module is never built, copied, opened or
\* initialised again.
C6_BlockedCallersFail ==
    [][ \A m \in Modules :
          /\ \A t \in stranded[m] : pc'[t] # pc[t] => pc'[t] = "failed"
          /\ poisoned[m] =>
                /\ spawned'[m] = spawned[m] /\ copied'[m] = copied[m]
                /\ dlopened'[m] = dlopened[m] /\ inits'[m] = inits[m]
      ]_vars

\* The thread building a module has panicked and released the poisoned slot
\* mutex while another caller was blocked on it.
C6_Witness ==
    \E m \in Modules : \E t \in stranded[m] :
        /\ poisoned[m] /\ slotLock[m] = NoThread
        /\ pc[t] = "slot_lock" /\ cur[t] = m
        /\ spawned[m] = 1

\* C7: every load_mod call eventually returns a handle or fails, provided the
\* threads keep being scheduled and the cargo children terminate: the calls
\* of a run being finitely many, the process comes to rest with no thread
\* left inside load_mod, blocked or not.
C7_EveryCallEnds ==
    <>[](\A t \in Threads : pc[t] \in {"idle", "done", "failed"})

\* Every call of the run has ended, one of them by a panic in the build+load
\* phase and one by returning a handle.
C7_Witness ==
    /\ calls = MaxCalls
    /\ \A t \in Threads : pc[t] \in {"idle", "done", "failed"}
    /\ \E t \in Threads : pc[t] = "failed" /\ work[t] # {}
    /\ \E t \in Threads : pc[t] = "done"

\* Every line of sequence `lines` occurs in sequence `log`.
Contains(log, lines) ==
    \A i \in 1..Len(lines) : \E j \in 1..Len(log) : log[j] = lines[i]

\* The library of m beside the executable is still the one the process
\* started with: no build has copied over it.
Untouched(m) == copied[m] = 0

\* C8 as stated: when the binary of a module exists beside the executable and
\* no must-build mode was asked for (DYLO_BUILD is unset), the build command is
\* not invoked for it.
C8_NoBuildWhenBinaryPresent ==
    \A m \in Modules :
        (DYLO_BUILD = "unset" /\ Untouched(m) /\ exeLib[m] = "good")
            => spawned[m] = 0

\* C8 as amended: whether the build command runs depends on the build mode
\* alone. With DYLO_BUILD = "0" it is never spawned; with any other value, or
\* none, a module is loaded only after its build command was spawned, once,
\* also when its binary was already there; the dynamic loader is reached only
\* after the spawn.
C8_BuildDependsOnModeOnly ==
    \A m \in Modules :
        /\ DYLO_BUILD = "0" => spawned[m] = 0
        /\ (DYLO_BUILD # "0" /\ slot[m] # NoHandle) => spawned[m] = 1
        /\ \A t \in Threads :
              (DYLO_BUILD # "0" /\ cur[t] = m
                 /\ pc[t] \in {"bm_wait", "bm_copy", "bm_copy_dbg", "dlopen",
                               "dlsym", "init", "store"})
                  => spawned[m] = 1

\* DYLO_BUILD is unset, the module's binary was beside the executable from
\* the start, and the build command has been spawned for it all the same.
C8_Witness ==
    \E m \in Modules : \E t \in Threads :
        /\ DYLO_BUILD = "unset" /\ Untouched(m) /\ exeLib[m] = "good"
        /\ cur[t] = m /\ pc[t] = "bm_wait" /\ spawned[m] = 1

C10_SkipModeSkipsBuildPhase ==
    [][ DYLO_BUILD = "0" =>
          /\ \A t \in Threads :
                (pc[t] = "bm_paths" /\ exeLib[cur[t]] = "good")
                    => pc'[t] \in {"bm_paths", "dlopen"}
          /\ spawned' = spawned /\ copied' = copied
      ]_vars

\* Thread t's current call ran a build that exited zero and is past the copy
\* of the library.
BuiltAndCopied(t) ==
    /\ "spawn" \in work[t]
    /\ pc[t] \in {"bm_copy_dbg", "dlopen", "dlsym", "init", "store"}

\* C11: after a build that exited zero the library is copied to the very
\* path load_mod hands to dlopen, so that the file there is the built one,
\* and the debug info is beside the executable exactly if the build left
\* one; dlopen is reached only after the copy; a copy that fails ends the
\* call with a panic, and the library is not opened.
C11_BuiltLibraryIsTheOneOpened ==
    \A t \in Threads :
        /\ BuiltAndCopied(t) =>
              /\ "copy" \in work[t] /\ copied[cur[t]] = 1
              /\ exeLib[cur[t]] = targetLib[cur[t]]
              /\ exeLib[cur[t]] # "absent"
        /\ (BuiltAndCopied(t) /\ pc[t] # "bm_copy_dbg") =>
              exeDbg[cur[t]] = targetDbg[cur[t]]
        /\ ("spawn" \in work[t] /\ "dlopen" \in work[t]) => "copy" \in work[t]
        /\ (pc[t] = "failed" /\ panic[t].text = "Failed to copy built module") =>
              /\ "copy" \notin work[t] /\ "dlopen" \notin work[t]
              /\ copied[cur[t]] = 0 /\ dlopened[cur[t]] = 0
        /\ (pc[t] = "failed" /\ "spawn" \in work[t] /\ child[cur[t]] = NoChild
              /\ reported[cur[t]] = << >> /\ targetLib[cur[t]] = "absent") =>
              panic[t].text = "Failed to copy built module"

\* A build left a library with its debug info; both were copied and the
\* library was opened.
C11_Witness ==
    \E t \in Threads :
        /\ pc[t] = "dlsym" /\ "copy" \in work[t]
        /\ exeDbg[cur[t]] /\ targetDbg[cur[t]]
        /\ \E u \in Threads :
              /\ pc[u] = "failed" /\ cur[u] # cur[t]
              /\ panic[u].text = "Failed to copy built module"

\* C12: a slot holds a handle only after the library was opened, then the
\* entry symbol resolved, then the entry point invoked, once, and returned:
\* the steps are taken in this order and none is taken after one that
\* failed. A dlopen that fails and a symbol that is missing end the call with
\* a panic whose message carries the text of dlerror(); the entry point is
\* then not invoked and no handle is stored.
C12_HandleStoredAfterOpenResolveInvoke ==
    /\ \A m \in Modules :
          slot[m] # NoHandle =>
              /\ dlopened[m] = 1 /\ inits[m] = 1 /\ slot[m] = inits[m]
              /\ ~dlsym_is_null(exeLib[m], symbol_name)
    /\ \A t \in Threads :
          /\ "init" \in work[t] => "dlopen" \in work[t]
          /\ pc[t] \in {"dlsym", "init", "store"} =>
                ("dlopen" \in work[t] /\ exeLib[cur[t]] # "absent")
          /\ pc[t] \in {"dlsym", "init"} => "init" \notin work[t]
          /\ pc[t] \in {"init", "store"} =>
                symbol_name \in Exports(exeLib[cur[t]])
          /\ pc[t] = "store" =>
                /\ "init" \in work[t] /\ plugin[t] # NoHandle
                /\ slot[cur[t]] = NoHandle
          /\ (pc[t] = "failed" /\ panic[t].text = "Failed to load dynamic library") =>
                /\ panic[t].os = dlerror("dlopen") /\ panic[t].os # ""
                /\ "dlopen" \notin work[t] /\ "init" \notin work[t]
                /\ dlopened[cur[t]] = 0 /\ inits[cur[t]] = 0
                /\ slot[cur[t]] = NoHandle
          /\ (pc[t] = "failed" /\ panic[t].text = "Did not find in dynamic library") =>
                /\ panic[t].os = dlerror("dlsym") /\ panic[t].os # ""
                /\ "dlopen" \in work[t] /\ "init" \notin work[t]
                /\ inits[cur[t]] = 0 /\ slot[cur[t]] = NoHandle
          /\ (pc[t] = "failed" /\ "dlopen" \in work[t] /\ "init" \notin work[t]) =>
                panic[t].text = "Did not find in dynamic library"

\* One call ended at a missing symbol, with dlerror's text, and one call for
\* another module has stored and returned the handle its entry point gave.
C12_Witness ==
    \E t, u \in Threads :
        /\ pc[t] = "failed" /\ panic[t] = Msg("Did not find in dynamic library",
                                              "undefined symbol")
        /\ pc[u] = "done" /\ cur[u] # cur[t] /\ "init" \in work[u]
        /\ slot[cur[u]] = ret[u] /\ ret[u] # NoHandle

\* C13: no step closes a library handle: every library a dlopen of the
\* process opened is open in every later state, so the open handles of each
\* library are as many as the dlopen calls that succeeded on it, also after
\* its entry symbol was not found and after loads of other modules failed.
C13_HandlesNeverClosed ==
    \A m \in Modules :
        /\ handles[m] = dlopened[m]
        /\ slot[m] # NoHandle => handles[m] >= 1
        /\ \A t \in Threads :
              (cur[t] = m /\ "dlopen" \in work[t]) => handles[m] >= 1

\* The library of one module was opened and its entry symbol not found, the
\* load of another module has failed too, and the library is still open.
C13_Witness ==
    \E t, u \in Threads :
        /\ pc[t] = "failed" /\ panic[t].text = "Did not find in dynamic library"
        /\ pc[u] = "failed" /\ cur[u] # cur[t] /\ work[u] # {}
        /\ handles[cur[t]] = 1

\* Thread t's call panicked in build_mod or load_mod itself, not on a slot
\* mutex that an earlier panic poisoned.
FailedFirstHand(t) == pc[t] = "failed" /\ panic[t].text # "PoisonError"

\* C14 as stated: with DYLO_BUILD = "0" and no library of the module where
\* the loader looks, the call fails with a ModuleNotFound error that lists
\* the directories searched, and nothing is spawned (looked at for a module
\* whose source and target directories get_paths finds).
C14_FailsWithModuleNotFound ==
    \A t \in Threads :
        (DYLO_BUILD = "0" /\ exeLib[cur[t]] = "absent" /\ get_paths(cur[t])
           /\ FailedFirstHand(t))
            => /\ panic[t].text = "ModuleNotFound"
               /\ spawned[cur[t]] = 0

\* C14 as amended: with DYLO_BUILD = "0" nothing is ever spawned, and a
\* module with no library beside the executable is never loaded: its call
\* fails at get_paths, or else at the one dlopen of the path beside the
\* executable, with "Failed to load dynamic library" and dlerror's text.
C14_SkipModeWithoutBinaryFailsAtDlopen ==
    DYLO_BUILD = "0" =>
        \A m \in Modules :
            /\ spawned[m] = 0
            /\ exeLib[m] = "absent" =>
                  /\ slot[m] = NoHandle /\ dlopened[m] = 0
                  /\ \A t \in Threads :
                        cur[t] = m =>
                            /\ pc[t] \notin {"bm_spawn", "bm_wait", "bm_copy",
                                              "bm_copy_dbg", "dlsym", "init",
                                              "store", "done"}
                            /\ FailedFirstHand(t) =>
                                  panic[t] = IF get_paths(m)
                                             THEN Msg("Failed to load dynamic library",
                                                      dlerror("dlopen"))
                                             ELSE get_paths_panic(m)

\* In skip mode a call for a module without a library has failed at dlopen;
\* nothing was spawned.
C14_Witness ==
    \E t \in Threads :
        /\ DYLO_BUILD = "0" /\ exeLib[cur[t]] = "absent"
        /\ pc[t] = "failed" /\ spawned[cur[t]] = 0
        /\ panic[t] = Msg("Failed to load dynamic library",
                          "cannot open shared object file")

OnlyInTargetDir(m) ==
    exeLib[m] = "absent" /\ targetLib[m] = "good" /\ copied[m] = 0

C17_GeneratedEntryPointResolves ==
    \A t \in Threads :
        export_name \in Exports(exeLib[cur[t]]) =>
            ~(pc[t] = "failed" /\ panic[t].text = "Did not find in dynamic library")

\* The state of m's slot: Loading while the holder of its mutex is in the
\* build+load phase, Loaded once the slot holds a handle, Failed once its mutex is
\* poisoned, Empty before all that.
SlotState(m) ==
    IF slotLock[m] # NoThread /\ InBuildLoad(slotLock[m]) THEN "Loading"
    ELSE IF slot[m] # NoHandle THEN "Loaded"
    ELSE IF poisoned[m] THEN "Failed"
    ELSE "Empty"

\* No two threads are in the build+load phase for one module.
OneLoaderPerModule ==
    \A t, u \in Threads :
        (InBuildLoad(t) /\ InBuildLoad(u) /\ cur[t] = cur[u]) => t = u

\* C19: at most one thread at a time is in the build+load phase for a
\* module; the content of a slot is written at most once, when it is empty,
\* by the thread that holds the slot mutex; and the state of a slot moves only
\* from Empty to Loading and from Loading to Loaded or to Failed.
C19_SlotStateMachine ==
    [][ /\ OneLoaderPerModule'
        /\ \A m \in Modules :
              LET before == SlotState(m)
                  after == SlotState(m)'
              IN  /\ slot'[m] # slot[m] =>
                        /\ slot[m] = NoHandle /\ slot'[m] # NoHandle
                        /\ \E t \in Threads :
                              /\ slotLock[m] = t /\ cur[t] = m
                              /\ pc[t] = "store" /\ pc'[t] = "done"
                  /\ \/ after = before
                     \/ before = "Empty" /\ after = "Loading"
                     \/ before = "Loading" /\ after \in {"Loaded", "Failed"}
      ]_vars

\* A thread is about to write the slot of a module whose mutex it holds
\* while another caller for the module waits on that mutex.
C19_Witness ==
    \E t, u \in Threads :
        /\ t # u /\ cur[t] = cur[u]
        /\ pc[t] = "store" /\ slotLock[cur[t]] = t /\ SlotState(cur[t]) = "Loading"
        /\ pc[u] = "slot_lock"

\* C20: once a call for a module has panicked in build_mod or in the rest of
\* load_mod, the module is never loaded; every other call for it, begun
\* before or after, has done none of the work of a load and can only wait
\* for the slot mutex or fail on it, so that the build command is not spawned
\* and the library not opened a second time.
C20_FailureIsPermanent ==
    \A m \in Modules :
        poisoned[m] =>
            /\ slot[m] = NoHandle
            /\ spawned[m] <= 1 /\ dlopened[m] <= 1
            /\ \A t \in Threads :
                  (cur[t] = m /\ pc[t] # "idle") =>
                      /\ pc[t] \in {"reg_lock", "reg_entry", "slot_lock", "failed"}
                      /\ (pc[t] # "failed" \/ panic[t].text = "PoisonError") =>
                            work[t] = {}
                      /\ (pc[t] = "failed" /\ work[t] = {}) =>
                            panic[t].text = "PoisonError"

\* The only thread that ever called has called twice for one module: the
\* first call failed after it spawned the build, the second has failed on the
\* poisoned slot mutex without doing anything.
C20_Witness ==
    \E t \in Threads :
        /\ calls = 2 /\ \A u \in Threads \ {t} : pc[u] = "idle"
        /\ pc[t] = "failed" /\ panic[t].text = "PoisonError"
        /\ poisoned[cur[t]] /\ spawned[cur[t]] = 1

\* C21: a failed build or load leaves the registry usable. The LOCKS mutex is
\* held only at the find-or-insert step, where nothing panics, so a thread
\* whose call has ended, by a panic or not, holds no mutex at all; a call
\* fails on a poisoned mutex only if it is the mutex of its own module, and a
\* call that fails first-hand fails on the files of its own module, whatever
\* became of the other modules.
C21_RegistryUsableAfterFailure ==
    /\ regLock # NoThread => pc[regLock] = "reg_entry"
    /\ \A t \in Threads :
          /\ pc[t] \in {"idle", "done", "failed"} =>
                (regLock # t /\ \A m \in Modules : slotLock[m] # t)
          /\ pc[t] = "failed" =>
                /\ poisoned[cur[t]]
                /\ panic[t].text = "Could not find mod source directory"
                      => ~paths[cur[t]]
                /\ panic[t].text = "Failed to copy built module"
                      => targetLib[cur[t]] = "absent"
                /\ panic[t].text = "Failed to load dynamic library"
                      => exeLib[cur[t]] = "absent"
                /\ panic[t].text = "Did not find in dynamic library"
                      => symbol_name \notin Exports(exeLib[cur[t]])

\* The load of one module has failed in build_mod or load_mod, and a call for
\* another module that went through the registry has loaded it and returned.
C21_Witness ==
    \E t, u \in Threads :
        /\ pc[t] = "failed" /\ work[t] # {} /\ poisoned[cur[t]]
        /\ pc[u] = "done" /\ cur[u] # cur[t] /\ "init" \in work[u]
        /\ ret[u] # NoHandle /\ regLock = NoThread
        /\ registry = Modules

\* The call of build_mod is over: the caller has returned or failed, the child
\* is not running, and neither a reader nor the collector is.
BuildOver ==
    /\ bm.pc \in {"returned", "failed"}
    /\ bm.cargo # "running"
    /\ \A s \in Streams : bm.reader[s] # "running"
    /\ bm.collect # "running"

\* C22: the two readers drain stdout and stderr independently, so the child
\* never stays blocked on a full pipe whatever the order and the volume of its
\* output; the child exits, both readers and the collector terminate, and
\* build_mod returns or fails, in quiet and in verbose mode.
C22_BuildTerminates == <>[]BuildOver

\* A quiet build is over whose child wrote more lines to stderr than a pipe
\* holds and nothing to stdout.
C22_Witness ==
    /\ BuildOver
    /\ bm.piped
    /\ Len(bm.written["stderr"]) > PipeCap
    /\ bm.written["stdout"] = << >>

\* The lines of the build log that carry the tag of stream s, in log order.
LogOf(s) == SelectSeq(bm.output, LAMBDA e : e[1] = s)

\* The numbers of the lines of valid UTF-8 among lines, in order.
RECURSIVE ValidLines(_)
ValidLines(lines) ==
    IF lines = << >> THEN << >>
    ELSE IF Head(lines).utf8 THEN <<Head(lines).n>> \o ValidLines(Tail(lines))
    ELSE ValidLines(Tail(lines))

\* C23 as stated, asked of the lines of valid UTF-8 only: when the exit status
\* of a quiet build is examined, the build log holds every line the child
\* wrote to either stream, tagged with its stream, the lines of one stream in
\* the order written.
C23_LogHoldsEveryLine ==
    (bm.pc = "status" /\ bm.piped) =>
        \A s \in Streams : LogOf(s) = TagAll(s, ValidLines(bm.written[s]))

\* What the child wrote that went straight to the terminal.
Live == SelectSeq(bm.terminal, LAMBDA e : e[1] = "cargo")

\* The three behaviours of build_mod.
Skips ==
    /\ bm.cargo = "none"
    /\ bm.pc \in {"idle", "returned"}
    /\ bm.terminal = << >> /\ bm.output = << >>

Quiet ==
    /\ bm.cargo # "none" => bm.piped
    /\ bm.pc = "returned" => bm.cargo = "exited"
    /\ Live = << >>
    /\ IF bm.pc = "failed"
       THEN bm.terminal = <<LogHeader>> \o bm.output
       ELSE bm.terminal = << >>

Verbose ==
    /\ bm.cargo # "none" => ~bm.piped
    /\ bm.pc = "returned" => bm.cargo = "exited"
    /\ bm.channel = << >> /\ bm.output = << >>
    /\ \A s \in Streams :
          SelectSeq(Live, LAMBDA e : e[2] = s)
              = [i \in 1..Len(bm.written[s]) |-> <<"cargo", s, bm.written[s][i].n>>]

\* C24: DYLO_BUILD selects one of three behaviours: "0" skips (no process is
\* spawned), "verbose" builds with the output of the child streamed live and
\* nothing captured, and every other value, unset included, builds quietly
\* (output captured, shown only when the build fails) and never skips.
C24_ModeSelectsBehaviour ==
    /\ DYLO_BUILD = "0" => Skips
    /\ DYLO_BUILD = "verbose" => Verbose
    /\ DYLO_BUILD \notin {"0", "verbose"} => Quiet

\* With a value of DYLO_BUILD that from_env does not know the build ran, its
\* output was captured, and it is shown because the build failed.
C24_Witness ==
    /\ DYLO_BUILD = "yes"
    /\ bm.pc = "failed"
    /\ bm.output # << >>
    /\ bm.terminal = <<LogHeader>> \o bm.output

\* The item carries cfg(feature = "impl") or cfg(test).
Gated(x) == \E i \in 1..Len(x.attrs) : x.attrs[i] \in {CfgImpl, CfgTest}

\* The item is an impl block marked with a dylo::export attribute.
Exported(x) ==
    /\ x.kind = "impl"
    /\ \E i \in 1..Len(x.attrs) : x.attrs[i] \in {Export, ExportNonsync, ExportOther}

\* The item with the attributes of the set S taken off.
Stripped(x, S) == [x EXCEPT !.attrs = SelectSeq(@, LAMBDA a : a \notin S)]

\* The items of the file that are neither gated nor exported, in file order.
Others == SelectSeq(ast.file, LAMBDA x : ~Gated(x) /\ ~Exported(x))

C25_UnchangedFilesNotRewritten == ws.last.rewritten = {}

\* C26: when the tool runs again with nothing changed in the two directories
\* since its last run, forced or not, the second run writes no file in the
\* mod directory or the consumer directory and runs no cargo check.
C26_SecondRunWritesNothing ==
    ws.last.again => (ws.last.written = {} /\ ~ws.last.check)

\* A forced run that followed a run which wrote files, with no change in
\* between: it read the source and wrote nothing.
C26_Witness ==
    /\ ws.last.again /\ ws.last.force /\ ws.last.read
    /\ ws.last.prior # {}
    /\ ws.last.written = {} /\ ~ws.last.check

\* C27: process_mod regenerates exactly when the force flag is set, or the
\* consumer directory is missing, or the latest timestamp of the mod is
\* strictly newer than that of the consumer; otherwise it reads no source,
\* writes no file and runs no cargo check.
C27_RegeneratesIff ==
    ws.last.ran =>
        /\ ws.last.read <=>
              \/ ws.last.force
              \/ ~ws.last.con_exists
              \/ ws.last.mod_timestamp > ws.last.con_timestamp
        /\ ~ws.last.read => (ws.last.written = {} /\ ~ws.last.check)

\* An unforced run found the consumer directory with the same latest
\* timestamp as the mod directory and did nothing.
C27_Witness ==
    /\ ws.last.ran /\ ~ws.last.force /\ ws.last.con_exists
    /\ ws.last.mod_timestamp = ws.last.con_timestamp
    /\ ~ws.last.read /\ ws.last.written = {} /\ ~ws.last.check

\* How many times the feature lists the entry.
Count(impl, entry) == Cardinality({i \in 1..Len(impl) : impl[i] = entry})

\* The crates an argument list names.
Names(deps) == {deps[i].name : i \in 1..Len(deps)}

\* C29: after a successful add_dependency with is_impl the impl feature lists
\* dep:<name> exactly once for each added dependency, also when the add is
\* repeated; the version after '@' is no part of the entry; the feature under
\* the name of the dependency is gone. Without is_impl the features table is
\* as it was.
C29_ImplFeatureAfterAdd ==
    (toml.last.op = "add" /\ toml.last.ok) =>
        IF toml.last.is_impl
        THEN /\ toml.manifest.has_features /\ toml.manifest.has_impl
             /\ \A i \in 1..Len(toml.last.deps) :
                   LET dep == toml.last.deps[i] IN
                   /\ Count(toml.manifest.impl, "dep:" \o dep.name) = 1
                   /\ dep.version # "" =>
                         Count(toml.manifest.impl, "dep:" \o Raw(dep)) = 0
                   /\ dep.name \notin toml.manifest.others
        ELSE /\ toml.manifest.has_features = toml.last.before.has_features
             /\ toml.manifest.has_impl = toml.last.before.has_impl
             /\ toml.manifest.impl = toml.last.before.impl
             /\ toml.manifest.others = toml.last.before.others

\* tokio was added as impl-only dependency twice, the second time with a
\* version: the impl feature lists dep:tokio once.
C29_Witness ==
    /\ toml.last.op = "add" /\ toml.last.ok /\ toml.last.is_impl
    /\ toml.prev.op = "add" /\ toml.prev.ok /\ toml.prev.is_impl
    /\ toml.prev.deps = <<DepArg("tokio", "")>>
    /\ toml.last.deps = <<DepArg("tokio", "1")>>
    /\ "tokio" \in toml.prev.before.others
    /\ Count(toml.manifest.impl, "dep:tokio") = 1

\* After a successful remove_dependency the impl feature lists no dep:<d> of
\* a removed d, the other entries are kept in their order, and the command
\* wrote the manifest only when that changed the impl feature.
RemovedFromImpl ==
    (toml.last.op = "rm" /\ toml.last.ok) =>
        /\ \A n \in Names(toml.last.deps) : Count(toml.manifest.impl, "dep:" \o n) = 0
        /\ toml.manifest.impl =
              SelectSeq(toml.last.before.impl,
                        LAMBDA e : e \notin {"dep:" \o n : n \in Names(toml.last.deps)})
        /\ toml.last.wrote => toml.manifest.impl # toml.last.before.impl

\* The last two commands added crates as impl-only dependencies and removed
\* the same crates, both with success.
AddedThenRemoved ==
    /\ toml.last.op = "rm" /\ toml.last.ok
    /\ toml.prev.op = "add" /\ toml.prev.ok /\ toml.prev.is_impl
    /\ Names(toml.prev.deps) = Names(toml.last.deps)

\* C30 as stated: what RemovedFromImpl says, and adding an impl-only
\* dependency and then removing it restores the impl feature to its previous
\* contents.
C30_AddThenRemoveRestores ==
    /\ RemovedFromImpl
    /\ AddedThenRemoved => toml.manifest.impl = toml.prev.before.impl

\* C30, amended: what RemovedFromImpl says, and adding an impl-only
\* dependency that the impl feature did not list before and then removing it
\* leaves the impl feature with the entries it had before.
C30_RemoveDependency ==
    /\ RemovedFromImpl
    /\ (/\ AddedThenRemoved
        /\ \A n \in Names(toml.prev.deps) :
              Count(toml.prev.before.impl, "dep:" \o n) = 0)
          => toml.manifest.impl = toml.prev.before.impl

\* tokio was added as impl-only dependency to a manifest whose impl feature
\* listed std, dep:serde and alloc, and removed again: the command wrote the
\* manifest and the impl feature is as before.
C30_Witness ==
    /\ AddedThenRemoved
    /\ toml.last.deps = <<DepArg("tokio", "")>>
    /\ toml.prev.before.impl = <<"std", "dep:serde", "alloc">>
    /\ toml.last.before.impl = <<"std", "dep:serde", "alloc", "dep:tokio">>
    /\ toml.last.wrote
    /\ toml.manifest.impl = <<"std", "dep:serde", "alloc">>

====
